---- MODULE Spec2Model ----
(***************************************************************************)
(* A model of the OpenAI brain service (MyBrainService): the validation,  *)
(* history windowing, message composition, model selection, client cache  *)
(* and response adaptation of its three operations.                       *)
(*                                                                         *)
(* Strings the code takes apart (messages, mime types, counts, data URLs) *)
(* are sequences of one-character strings; strings the code only compares *)
(* or measures (credentials, labels, roles) are TLA+ strings.  A field of *)
(* a JS object that is undefined is a field the record does not have.     *)
(***************************************************************************)
EXTENDS Integers, Sequences, FiniteSets, TLC

VARIABLES
    openAI,        \* this.openAI: the cached provider client
    currentKey,    \* this.currentKey: the credential the cache was built for
    clientsBuilt,  \* how many times `new OpenAI(...)` has run (client identity)
    calls,         \* the invocations in progress, one per host call slot
    callsStarted,  \* how many operation calls the host has made
    requests,      \* the provider requests issued, in order
    fileReads,     \* the file paths read or opened, in order
    fetches        \* the URLs fetched with node-fetch, in order

vars == <<openAI, currentKey, clientsBuilt, calls, callsStarted, requests, fileReads, fetches>>

-----------------------------------------------------------------------------
(* Bounds of the model *)

MaxTurns == 3
MaxMsgLen == 2
MaxBudget == 3
MaxComposeTurns == 2
MaxPrompts == 2
MaxImages == 2
MaxCalls == 3

-----------------------------------------------------------------------------
(* JS values *)

undefined == "<undefined>"

Has(r, f) == f \in DOMAIN r

Field(r, f) == IF Has(r, f) THEN r[f] ELSE undefined

Str(ch, n) == [i \in 1..n |-> ch]

StartsWith(s, p) == Len(s) >= Len(p) /\ SubSeq(s, 1, Len(p)) = p

RECURSIVE SumLen(_)
SumLen(strs) == IF strs = <<>> THEN 0 ELSE Len(Head(strs)) + SumLen(Tail(strs))

Whitespace == {" ", "\t", "\n"}

RECURSIVE trimStart(_)
trimStart(s) == IF s # <<>> /\ Head(s) \in Whitespace THEN trimStart(Tail(s)) ELSE s

RECURSIVE trimEnd(_)
trimEnd(s) ==
    IF s # <<>> /\ s[Len(s)] \in Whitespace THEN trimEnd(SubSeq(s, 1, Len(s) - 1)) ELSE s

trim(s) == trimEnd(trimStart(s))

-----------------------------------------------------------------------------
(* validateSettings *)

MinApiKeyLength == 10

MissingKeyContent == "# OpenAI API Key is Missing ..."

validateSettings_NoLengthCheck(settings) ==
    LET invalid == ~Has(settings, "apiKey") \/ settings.apiKey = ""
    IN  [success |-> ~invalid,
         errors  |-> IF invalid THEN <<MissingKeyContent>> ELSE <<>>]

validateSettings(settings) ==
    LET invalid == \/ ~Has(settings, "apiKey")
                   \/ settings.apiKey = ""
                   \/ Len(settings.apiKey) < MinApiKeyLength
    IN  [success |-> ~invalid,
         errors  |-> IF invalid THEN <<MissingKeyContent>> ELSE <<>>]

\* BrainSettingsValidationResult.getMessage(): the errors added, as text
getMessage(validationResult) ==
    IF validationResult.errors = <<>> THEN "" ELSE validationResult.errors[1]

-----------------------------------------------------------------------------
(* truncateStringList *)

RECURSIVE truncateLoop(_, _, _)
truncateLoop(list, totalCharacters, maxCharacters) ==
    IF totalCharacters > maxCharacters /\ Len(list) > 1
    THEN truncateLoop(Tail(list), totalCharacters - Len(Head(list).message), maxCharacters)
    ELSE list

truncateStringList_NoFloor(list, maxCharacters) ==
    IF Len(list) <= 2
    THEN list
    ELSE LET RECURSIVE loop(_, _)
             loop(l, total) ==
                 IF total > maxCharacters /\ Len(l) > 0
                 THEN loop(Tail(l), total - Len(Head(l).message))
                 ELSE l
         IN  loop(list, SumLen([i \in 1..Len(list) |-> list[i].message]))

truncateStringList(list, maxCharacters) ==
    IF Len(list) <= 2
    THEN list
    ELSE truncateLoop(list, SumLen([i \in 1..Len(list) |-> list[i].message]), maxCharacters)

-----------------------------------------------------------------------------
(* The file system (read-only), and convertImageAttachmentToBase64 *)

PngPath == "/tmp/a.png"
JpgPath == "/tmp/b.jpg"
PdfPath == "/tmp/c.pdf"
AudioPath == "/tmp/d.mp3"

\* the bytes of each file the host may attach
FileBytes ==
    (PngPath :> <<137, 80, 78>>) @@ (JpgPath :> <<255, 216>>) @@
    (PdfPath :> <<37>>) @@ (AudioPath :> <<73, 68, 51, 3>>)

Base64Alphabet == <<
    "A", "B", "C", "D", "E", "F", "G", "H", "I", "J", "K", "L", "M", "N", "O", "P",
    "Q", "R", "S", "T", "U", "V", "W", "X", "Y", "Z", "a", "b", "c", "d", "e", "f",
    "g", "h", "i", "j", "k", "l", "m", "n", "o", "p", "q", "r", "s", "t", "u", "v",
    "w", "x", "y", "z", "0", "1", "2", "3", "4", "5", "6", "7", "8", "9", "+", "/">>

\* Buffer.toString('base64'): three bytes to four characters, '=' padding
RECURSIVE toBase64(_)
toBase64(bytes) ==
    LET ch(n) == Base64Alphabet[n + 1]
    IN  IF bytes = <<>> THEN <<>>
        ELSE IF Len(bytes) = 1
        THEN <<ch(bytes[1] \div 4), ch((bytes[1] % 4) * 16), "=", "=">>
        ELSE IF Len(bytes) = 2
        THEN <<ch(bytes[1] \div 4),
               ch((bytes[1] % 4) * 16 + bytes[2] \div 16),
               ch((bytes[2] % 16) * 4), "=">>
        ELSE <<ch(bytes[1] \div 4),
               ch((bytes[1] % 4) * 16 + bytes[2] \div 16),
               ch((bytes[2] % 16) * 4 + bytes[3] \div 64),
               ch(bytes[3] % 64)>> \o toBase64(SubSeq(bytes, 4, Len(bytes)))

ImagePrefix == <<"i", "m", "a", "g", "e", "/">>
MimePng == ImagePrefix \o <<"p", "n", "g">>
MimeJpeg == ImagePrefix \o <<"j", "p", "e", "g">>
MimePdf == <<"a", "p", "p", "l", "i", "c", "a", "t", "i", "o", "n", "/", "p", "d", "f">>

convertImageAttachmentToBase64(attachment) ==
    LET imageBase64 == toBase64(FileBytes[attachment.path])
    IN  <<"d", "a", "t", "a", ":">> \o attachment.mimeType
            \o <<";", "b", "a", "s", "e", "6", "4", ",">> \o imageBase64

-----------------------------------------------------------------------------
(* sendTextPrompt: content composition and model selection *)

isImage(a) == StartsWith(a.mimeType, ImagePrefix)

\* message.attachments?.filter((a) => a.mimeType.startsWith('image/'))
imageAttachments(message) == SelectSeq(message.attachments, isImage)

\* the number of turns that carry at least one image attachment
hasImageAttached(messagesTruncated) ==
    Cardinality({i \in 1..Len(messagesTruncated) :
                    Len(imageAttachments(messagesTruncated[i])) # 0})

getMessageContent_IgnoresRole(message, lastPrompt, settings) ==
    IF Len(imageAttachments(message)) = 0
    THEN [kind |-> "string", text |-> message.message]
    ELSE [kind  |-> "parts",
          parts |-> <<[type |-> "text", text |-> message.message]>> \o
                    [i \in 1..Len(message.attachments) |->
                        [type      |-> "image_url",
                         image_url |->
                            [url    |-> convertImageAttachmentToBase64(message.attachments[i]),
                             detail |-> IF message.message = lastPrompt.message
                                        THEN Field(settings, "imageDetail")
                                        ELSE "low"]]]]

getMessageContent(message, lastPrompt, settings) ==
    IF Len(imageAttachments(message)) = 0 \/ message.role = "brain"
    THEN [kind |-> "string", text |-> message.message]
    ELSE [kind  |-> "parts",
          parts |-> <<[type |-> "text", text |-> message.message]>> \o
                    [i \in 1..Len(message.attachments) |->
                        [type      |-> "image_url",
                         image_url |->
                            [url    |-> convertImageAttachmentToBase64(message.attachments[i]),
                             detail |-> IF message.message = lastPrompt.message
                                        THEN Field(settings, "imageDetail")
                                        ELSE "low"]]]]

\* the files getMessageContent reads for one turn, in order
messageFileReads(message) ==
    IF Len(imageAttachments(message)) = 0 \/ message.role = "brain"
    THEN <<>>
    ELSE [i \in 1..Len(message.attachments) |-> message.attachments[i].path]

RECURSIVE Flatten(_)
Flatten(seqs) == IF seqs = <<>> THEN <<>> ELSE Head(seqs) \o Flatten(Tail(seqs))

textModels ==
    ("GPT 4o" :> "gpt-4o") @@ ("GPT 4o-mini" :> "gpt-4o-mini") @@ ("vision" :> "gpt-4o-mini")

\* textModels[label]: undefined for a label the table does not hold
textModelOf(label) == IF label \in DOMAIN textModels THEN textModels[label] ELSE undefined

DefaultMaxCharactersHistorySize == 3000

maxCharactersHistorySizeOf(settings) ==
    IF Has(settings, "maxCharactersHistorySize")
    THEN settings.maxCharactersHistorySize
    ELSE DefaultMaxCharactersHistorySize

providerRole(role) == IF role = "brain" THEN "assistant" ELSE role

selectTextModel_LastTurnOnly(messagesTruncated, settings) ==
    IF /\ messagesTruncated # <<>>
       /\ Len(imageAttachments(messagesTruncated[Len(messagesTruncated)])) # 0
    THEN textModels["vision"]
    ELSE textModelOf(Field(settings, "textModel"))

selectTextModel(messagesTruncated, settings) ==
    IF hasImageAttached(messagesTruncated) # 0
    THEN textModels["vision"]
    ELSE textModelOf(Field(settings, "textModel"))

\* the ChatCompletionCreateParams sendTextPrompt builds from valid settings
chatParams(prompts, settings) ==
    LET maxCharactersHistorySize == maxCharactersHistorySizeOf(settings)
        messagesTruncated == truncateStringList(prompts, maxCharactersHistorySize)
        lastPrompt == messagesTruncated[Len(messagesTruncated)]
    IN  [model      |-> selectTextModel(messagesTruncated, settings),
         messages   |-> [i \in 1..Len(messagesTruncated) |->
                            [role    |-> providerRole(messagesTruncated[i].role),
                             content |-> getMessageContent(messagesTruncated[i],
                                                           lastPrompt, settings)]],
         max_tokens |-> maxCharactersHistorySize]

chatFileReads(prompts, settings) ==
    LET messagesTruncated ==
            truncateStringList(prompts, maxCharactersHistorySizeOf(settings))
    IN  Flatten([i \in 1..Len(messagesTruncated) |-> messageFileReads(messagesTruncated[i])])

-----------------------------------------------------------------------------
(* getClient *)

NoClient == [id |-> 0, apiKey |-> undefined]

getClient_KeyNotStored(svc, settings) ==
    IF svc.openAI = NoClient \/ svc.currentKey # Field(settings, "apiKey")
    THEN [openAI       |-> [id |-> svc.clientsBuilt + 1, apiKey |-> Field(settings, "apiKey")],
          currentKey   |-> svc.currentKey,
          clientsBuilt |-> svc.clientsBuilt + 1]
    ELSE svc

getClient_NeverRebuilds(svc, settings) ==
    IF svc.openAI = NoClient
    THEN [openAI       |-> [id |-> svc.clientsBuilt + 1, apiKey |-> Field(settings, "apiKey")],
          currentKey   |-> Field(settings, "apiKey"),
          clientsBuilt |-> svc.clientsBuilt + 1]
    ELSE svc

\* the service fields after getClient(settings); .openAI is the client returned
getClient(svc, settings) ==
    IF svc.openAI = NoClient \/ svc.currentKey # Field(settings, "apiKey")
    THEN [openAI       |-> [id |-> svc.clientsBuilt + 1, apiKey |-> Field(settings, "apiKey")],
          currentKey   |-> Field(settings, "apiKey"),
          clientsBuilt |-> svc.clientsBuilt + 1]
    ELSE svc

service == [openAI |-> openAI, currentKey |-> currentKey, clientsBuilt |-> clientsBuilt]

-----------------------------------------------------------------------------
(* The service and its invocations *)

Slots == 1..2

IdleCall == [pc |-> "idle"]

Init ==
    /\ openAI = NoClient
    /\ currentKey = undefined
    /\ clientsBuilt = 0
    /\ calls = [c \in Slots |-> IdleCall]
    /\ callsStarted = 0
    /\ requests = <<>>
    /\ fileReads = <<>>
    /\ fetches = <<>>

\* the operation returns the validation failure: nothing else is touched
ReturnInvalid(c, op, prompts, context, validationResult) ==
    /\ calls' = [calls EXCEPT ![c] =
                    [pc       |-> "done",
                     op       |-> op,
                     prompts  |-> prompts,
                     context  |-> context,
                     response |-> [result           |-> getMessage(validationResult),
                                   validationResult |-> validationResult]]]
    /\ UNCHANGED <<openAI, currentKey, clientsBuilt, requests, fileReads, fetches>>

\* getClient(context.settings).<api>(params): the cache step and the request
\* start in the same synchronous stretch of the operation
IssueRequest(c, op, api, prompts, context, validationResult, params, locals) ==
    LET svc == getClient(service, context.settings)
    IN  /\ openAI' = svc.openAI
        /\ currentKey' = svc.currentKey
        /\ clientsBuilt' = svc.clientsBuilt
        /\ requests' = Append(requests,
                              [slot   |-> c,
                               api    |-> api,
                               apiKey |-> Field(context.settings, "apiKey"),
                               client |-> svc.openAI,
                               params |-> params])
        /\ calls' = [calls EXCEPT ![c] =
                        [pc               |-> "await",
                         op               |-> op,
                         prompts          |-> prompts,
                         context          |-> context,
                         validationResult |-> validationResult,
                         request          |-> Len(requests) + 1] @@ locals]

sendTextPrompt(c, prompts, context) ==
    /\ calls[c].pc = "idle"
    /\ callsStarted' = callsStarted + 1
    /\ LET validationResult == validateSettings(context.settings)
       IN  IF ~validationResult.success
           THEN ReturnInvalid(c, "sendTextPrompt", prompts, context, validationResult)
           ELSE /\ fileReads' = fileReads \o chatFileReads(prompts, context.settings)
                /\ IssueRequest(c, "sendTextPrompt", "chat.completions.create", prompts,
                                context, validationResult,
                                chatParams(prompts, context.settings),
                                [messagesTruncated |->
                                    truncateStringList(prompts,
                                        maxCharactersHistorySizeOf(context.settings))])
                /\ UNCHANGED fetches

\* the provider's ChatCompletion arrives: .then(response => ...)
chatCompleted(c, response) ==
    /\ calls[c].pc = "await"
    /\ calls[c].op = "sendTextPrompt"
    /\ calls' = [calls EXCEPT ![c] =
                    IF response.choices = <<>>
                    THEN [@ EXCEPT !.pc = "threw"] @@ [error |-> "TypeError"]
                    ELSE [@ EXCEPT !.pc = "done"] @@
                         [response |->
                            [result           |-> trim(response.choices[1].message.content),
                             validationResult |-> calls[c].validationResult]]]
    /\ UNCHANGED <<openAI, currentKey, clientsBuilt, callsStarted, requests, fileReads, fetches>>

\* any transport or provider error rejects the pending request; it propagates
providerFailed(c) ==
    /\ calls[c].pc = "await"
    /\ calls' = [calls EXCEPT ![c] = [@ EXCEPT !.pc = "threw"] @@ [error |-> "provider"]]
    /\ UNCHANGED <<openAI, currentKey, clientsBuilt, callsStarted, requests, fileReads, fetches>>

-----------------------------------------------------------------------------
(* transcribeAudio *)

\* a || b || c over optional strings: the first that is neither undefined nor ''
firstTruthy(values) ==
    LET truthy == SelectSeq(values, LAMBDA v : v # undefined /\ v # "")
    IN  IF truthy = <<>> THEN values[Len(values)] ELSE truthy[1]

transcriptionParams(prompt, settings) ==
    [file     |-> prompt.audioFilePath,
     language |-> firstTruthy(<<Field(prompt, "language"),
                                Field(settings, "audioTranscriberDefaultLanguage"),
                                "en">>),
     model    |-> Field(settings, "audioTranscriberModel")]

transcribeAudio(c, prompt, context) ==
    /\ calls[c].pc = "idle"
    /\ callsStarted' = callsStarted + 1
    /\ LET validationResult == validateSettings(context.settings)
       IN  IF ~validationResult.success
           THEN ReturnInvalid(c, "transcribeAudio", prompt, context, validationResult)
           ELSE /\ fileReads' = Append(fileReads, prompt.audioFilePath)
                /\ IssueRequest(c, "transcribeAudio", "audio.transcriptions.create", prompt,
                                context, validationResult,
                                transcriptionParams(prompt, context.settings),
                                [file |-> prompt.audioFilePath])
                /\ UNCHANGED fetches

transcriptionCompleted(c, result) ==
    /\ calls[c].pc = "await"
    /\ calls[c].op = "transcribeAudio"
    /\ calls' = [calls EXCEPT ![c] =
                    [@ EXCEPT !.pc = "done"] @@
                    [response |-> [result           |-> result.text,
                                   validationResult |-> calls[c].validationResult]]]
    /\ UNCHANGED <<openAI, currentKey, clientsBuilt, callsStarted, requests, fileReads, fetches>>

-----------------------------------------------------------------------------
(* generateImage *)

NaN == [nan |-> TRUE]

Num(v) == [nan |-> FALSE, value |-> v]

Digits == <<"0", "1", "2", "3", "4", "5", "6", "7", "8", "9">>

digitValue(ch) == (CHOOSE d \in 1..10 : Digits[d] = ch) - 1

isDigit(ch) == \E d \in 1..10 : Digits[d] = ch

RECURSIVE leadingDigits(_, _)
leadingDigits(s, acc) ==
    IF s # <<>> /\ isDigit(Head(s))
    THEN leadingDigits(Tail(s), acc * 10 + digitValue(Head(s)))
    ELSE acc

\* Number.parseInt(string): leading whitespace, a sign, then the decimal digits
\* up to the first other character; NaN when there is no digit
parseInt(str) ==
    LET s    == trimStart(str)
        sign == IF s # <<>> /\ Head(s) = "-" THEN -1 ELSE 1
        body == IF s # <<>> /\ Head(s) \in {"-", "+"} THEN Tail(s) ELSE s
    IN  IF body = <<>> \/ ~isDigit(Head(body))
        THEN NaN
        ELSE Num(sign * leadingDigits(body, 0))

\* the label table of generateImage (the code names it textModels as well)
imageModels == ("Dall-E 2" :> "dall-e-2") @@ ("Dall-E 3" :> "dall-e-3")

imageModelOf(label) == IF label \in DOMAIN imageModels THEN imageModels[label] ELSE undefined

responseFormatOf(prompt) ==
    IF Field(prompt, "expectedResponseType") = "base64" THEN "b64_json" ELSE "url"

imageParams_NoOverride(prompt, context) ==
    [model           |-> imageModelOf(Field(context.settings, "imageGenerationModel")),
     prompt          |-> trim(prompt.message),
     n               |-> parseInt(context.settings.imageGenerationCount),
     size            |-> Field(context.settings, "imageGenerationSize"),
     user            |-> Field(context, "senderId"),
     response_format |-> responseFormatOf(prompt)]

\* the ImageGenerateParams generateImage builds
imageParams(prompt, context) ==
    LET model == imageModelOf(Field(context.settings, "imageGenerationModel"))
    IN  [model           |-> model,
         prompt          |-> trim(prompt.message),
         n               |-> IF model = "dall-e-3"
                             THEN Num(1)
                             ELSE parseInt(context.settings.imageGenerationCount),
         size            |-> IF model = "dall-e-3"
                             THEN "1024x1024"
                             ELSE Field(context.settings, "imageGenerationSize"),
         user            |-> Field(context, "senderId"),
         response_format |-> responseFormatOf(prompt)]

generateImage(c, prompts, context) ==
    /\ calls[c].pc = "idle"
    /\ callsStarted' = callsStarted + 1
    /\ LET validationResult == validateSettings(context.settings)
       IN  IF ~validationResult.success
           THEN ReturnInvalid(c, "generateImage", prompts, context, validationResult)
           ELSE IF prompts = <<>>
           THEN \* prompt is undefined: prompt.expectedResponseType throws
                /\ calls' = [calls EXCEPT ![c] =
                                [pc |-> "threw", op |-> "generateImage", prompts |-> prompts,
                                 context |-> context, error |-> "TypeError"]]
                /\ UNCHANGED <<openAI, currentKey, clientsBuilt, requests, fileReads, fetches>>
           ELSE LET prompt == prompts[Len(prompts)]
                IN  /\ IssueRequest(c, "generateImage", "images.generate", prompts,
                                    context, validationResult, imageParams(prompt, context),
                                    [prompt         |-> prompt,
                                     responseFormat |-> responseFormatOf(prompt)])
                    /\ UNCHANGED <<fileReads, fetches>>

urlsOf_Reversed(result, responseFormat) ==
    [i \in 1..Len(result.data) |->
        IF responseFormat = "url"
        THEN Field(result.data[Len(result.data) + 1 - i], "url")
        ELSE Field(result.data[Len(result.data) + 1 - i], "b64_json")]

\* result.data.map((d) => responseFormat === 'url' ? d.url : d.b64_json)
urlsOf(result, responseFormat) ==
    [i \in 1..Len(result.data) |->
        IF responseFormat = "url"
        THEN Field(result.data[i], "url")
        ELSE Field(result.data[i], "b64_json")]

responseFile(data) == [data |-> data, fileType |-> "image", mimeType |-> "image/png"]

imageResponse(attachments, validationResult) ==
    [result |-> "", attachments |-> attachments, validationResult |-> validationResult]

\* what the provider's image hosts serve
RemoteBytes == ("https://img/1" :> <<137, 80>>) @@ ("https://img/2" :> <<137, 81>>)

\* the provider's ImagesResponse arrives; without a binary prompt the loop runs
\* to the return without another await, with one it stops at the first fetch
imagesGenerated(c, result) ==
    /\ calls[c].pc = "await"
    /\ calls[c].op = "generateImage"
    /\ LET urls == urlsOf(result, calls[c].responseFormat)
       IN  IF Field(calls[c].prompt, "expectedResponseType") = "binary" /\ urls # <<>>
           THEN /\ calls' = [calls EXCEPT ![c] =
                                [@ EXCEPT !.pc = "fetch"] @@
                                [result |-> result, urls |-> urls, attachments |-> <<>>]]
                /\ fetches' = Append(fetches, urls[1])
           ELSE /\ calls' = [calls EXCEPT ![c] =
                                [@ EXCEPT !.pc = "done"] @@
                                [result   |-> result,
                                 urls     |-> urls,
                                 response |->
                                    imageResponse([i \in 1..Len(urls) |-> responseFile(urls[i])],
                                                  calls[c].validationResult)]]
                /\ UNCHANGED fetches
    /\ UNCHANGED <<openAI, currentKey, clientsBuilt, callsStarted, requests, fileReads>>

\* (await fetch(url)).buffer() settles: push the file, go round the loop
fetchCompleted(c) ==
    /\ calls[c].pc = "fetch"
    /\ LET url == calls[c].urls[Len(calls[c].attachments) + 1]
           attachments == Append(calls[c].attachments, responseFile(RemoteBytes[url]))
       IN  IF Len(attachments) < Len(calls[c].urls)
           THEN /\ calls' = [calls EXCEPT ![c].attachments = attachments]
                /\ fetches' = Append(fetches, calls[c].urls[Len(attachments) + 1])
           ELSE /\ calls' = [calls EXCEPT ![c] =
                                [@ EXCEPT !.pc = "done"] @@
                                [response |-> imageResponse(attachments,
                                                            calls[c].validationResult)]]
                /\ UNCHANGED fetches
    /\ UNCHANGED <<openAI, currentKey, clientsBuilt, callsStarted, requests, fileReads>>

\* a fetch fails: the rejection propagates out of generateImage
fetchFailed(c) ==
    /\ calls[c].pc = "fetch"
    /\ calls' = [calls EXCEPT ![c] = [@ EXCEPT !.pc = "threw"] @@ [error |-> "fetch"]]
    /\ UNCHANGED <<openAI, currentKey, clientsBuilt, callsStarted, requests, fileReads, fetches>>

\* the host takes the settled promise; the slot can carry the next call
Return(c) ==
    /\ calls[c].pc \in {"done", "threw"}
    /\ callsStarted < MaxCalls
    /\ calls' = [calls EXCEPT ![c] = IdleCall]
    /\ UNCHANGED <<openAI, currentKey, clientsBuilt, callsStarted, requests, fileReads, fetches>>

-----------------------------------------------------------------------------
(* Inputs *)

SeqsUpTo(S, n) == UNION {[1..k -> S] : k \in 0..n}

ValidKey == "sk-aaaaaaa"
OtherValidKey == "sk-bbbbbbbb"
ShortKey == "sk-12"
NineKey == "sk-123456"

PngAttachment == [path |-> PngPath, mimeType |-> MimePng]
JpgAttachment == [path |-> JpgPath, mimeType |-> MimeJpeg]
PdfAttachment == [path |-> PdfPath, mimeType |-> MimePdf]

\* History windowing: turns of every message length, with and without an image
WindowTurns ==
    [role        : {"user"},
     message     : {Str("a", n) : n \in 0..MaxMsgLen},
     attachments : {<<>>, <<PngAttachment>>, <<PdfAttachment>>}]

WindowSettings ==
    {[apiKey |-> ValidKey, imageDetail |-> "high", textModel |-> l] : l \in {"GPT 4o", "GPT 5"}}
    \cup {[apiKey |-> ValidKey, imageDetail |-> "high", textModel |-> l,
           maxCharactersHistorySize |-> b] :
            l \in {"GPT 4o", "GPT 4o-mini", "GPT 5"}, b \in -1..MaxBudget}

Context(settings) == [settings |-> settings, senderId |-> "user-1"]

OkChatResponse == [choices |-> <<[message |-> [content |-> <<" ", "o", "k", "\n">>]]>>]

NextWindow ==
    \/ /\ callsStarted = 0
       /\ \E prompts \in SeqsUpTo(WindowTurns, MaxTurns), settings \in WindowSettings :
             sendTextPrompt(1, prompts, Context(settings))
    \/ chatCompleted(1, OkChatResponse)
    \/ providerFailed(1)

SpecWindow == Init /\ [][NextWindow]_vars

\* Content composition: every role, two texts of one length, mixed attachments
ComposeTurns ==
    [role        : {"user", "brain", "system"},
     message     : {<<"a">>, <<"b">>},
     attachments : {<<>>, <<PngAttachment>>, <<PdfAttachment>>,
                    <<PngAttachment, JpgAttachment>>, <<PngAttachment, PdfAttachment>>,
                    <<PdfAttachment, PngAttachment>>}]

ComposeSettings ==
    {[apiKey |-> ValidKey, textModel |-> "GPT 4o", imageDetail |-> d] : d \in {"low", "high"}}

NextCompose ==
    \/ /\ callsStarted = 0
       /\ \E prompts \in SeqsUpTo(ComposeTurns, MaxComposeTurns), settings \in ComposeSettings :
             sendTextPrompt(1, prompts, Context(settings))
    \/ chatCompleted(1, OkChatResponse)
    \/ providerFailed(1)

SpecCompose == Init /\ [][NextCompose]_vars

\* Image generation
ImagePrompts ==
    [message : {<<" ", "c", "a", "t", "\n">>, <<"d", "o", "g">>},
     expectedResponseType : {"url", "base64", "binary"}]

ImageSettings ==
    {[apiKey |-> ValidKey, imageGenerationCount |-> n, imageGenerationSize |-> z] @@ m :
        n \in {<<"1">>, <<"2">>, <<" ", "3", "x">>, <<"x">>},
        z \in {"256x256", "512x512", "1024x1024"},
        m \in {[imageGenerationModel |-> l] : l \in {"Dall-E 2", "Dall-E 3", "Dall-E 9"}}
              \cup {<<>>}}

ImageUrls == DOMAIN RemoteBytes

ImageB64s == {"aGk=", "eW8="}

\* the provider answers in the format the request asked for
ImagesResponses(format) ==
    {[data |-> d] : d \in SeqsUpTo(IF format = "url"
                                   THEN {[url |-> u] : u \in ImageUrls}
                                   ELSE {[b64_json |-> b] : b \in ImageB64s},
                                   MaxImages)}

NextImage ==
    \/ /\ callsStarted = 0
       /\ \E prompts \in SeqsUpTo(ImagePrompts, MaxPrompts), settings \in ImageSettings :
             generateImage(1, prompts, Context(settings))
    \/ /\ calls[1].pc = "await"
       /\ \E result \in ImagesResponses(calls[1].responseFormat) : imagesGenerated(1, result)
    \/ providerFailed(1)
    \/ fetchCompleted(1)
    \/ fetchFailed(1)

SpecImage == Init /\ [][NextImage]_vars

\* The long-lived service: every operation, every kind of credential, calls
\* that overlap at their awaits
ServiceSettings ==
    LET base == [textModel |-> "GPT 4o", imageDetail |-> "high",
                 audioTranscriberModel |-> "whisper-1",
                 imageGenerationModel |-> "Dall-E 2", imageGenerationCount |-> <<"1">>,
                 imageGenerationSize |-> "256x256"]
    IN  {base} \cup {base @@ [apiKey |-> k] : k \in {ShortKey, NineKey, ValidKey, OtherValidKey}}

ServiceTextPrompts ==
    <<[role |-> "user", message |-> <<"h", "i">>, attachments |-> <<PngAttachment>>]>>

ServiceAudioPrompt == [audioFilePath |-> AudioPath, language |-> "pt"]

ServiceImagePrompts == <<[message |-> <<"c", "a", "t">>, expectedResponseType |-> "binary"]>>

OkTranscription == [text |-> <<"o", "l", "a">>]

OkImages == [data |-> <<[url |-> "https://img/1"]>>]

Next ==
    \/ \E c \in Slots :
          /\ calls[c].pc = "idle"
          /\ callsStarted < MaxCalls
          /\ \E settings \in ServiceSettings :
                sendTextPrompt(c, ServiceTextPrompts, Context(settings))
    \/ \E c \in Slots :
          /\ calls[c].pc = "idle"
          /\ callsStarted < MaxCalls
          /\ \E settings \in ServiceSettings :
                transcribeAudio(c, ServiceAudioPrompt, Context(settings))
    \/ \E c \in Slots :
          /\ calls[c].pc = "idle"
          /\ callsStarted < MaxCalls
          /\ \E settings \in ServiceSettings :
                generateImage(c, ServiceImagePrompts, Context(settings))
    \/ \E c \in Slots : chatCompleted(c, OkChatResponse)
    \/ \E c \in Slots : transcriptionCompleted(c, OkTranscription)
    \/ \E c \in Slots : imagesGenerated(c, OkImages)
    \/ \E c \in Slots : providerFailed(c)
    \/ \E c \in Slots : fetchCompleted(c)
    \/ \E c \in Slots : fetchFailed(c)
    \/ \E c \in Slots : Return(c)

Spec == Init /\ [][Next]_vars

-----------------------------------------------------------------------------
(* Properties *)

\* the sendTextPrompt invocations that got as far as their provider request
TextRequests == {c \in Slots : /\ calls[c].pc # "idle"
                               /\ calls[c].op = "sendTextPrompt"
                               /\ Has(calls[c], "request")}

RequestOf(c) == requests[calls[c].request]

Suffixes(list) == {SubSeq(list, k, Len(list)) : k \in 1..(Len(list) + 1)}

RECURSIVE TotalMessageLength(_)
TotalMessageLength(list) ==
    IF list = <<>> THEN 0 ELSE Len(list[1].message) + TotalMessageLength(Tail(list))

HasImageMime(turn) ==
    \E j \in 1..Len(turn.attachments) :
        /\ Len(turn.attachments[j].mimeType) >= 6
        /\ SubSeq(turn.attachments[j].mimeType, 1, 6) = <<"i", "m", "a", "g", "e", "/">>

\* the text a request message carries, whichever shape its content has
ContentText(content) ==
    IF content.kind = "string" THEN content.text ELSE content.parts[1].text

\* C1: the turns sendTextPrompt sends are the input unchanged when it has 2 or
\* fewer turns; otherwise they are a non-empty suffix of the input, in order:
\* the longest one whose summed message length is within the budget, or the last
\* turn alone when the last two turns already exceed it.  Only message lengths
\* count, never attachments.
C1_WindowIsLongestFittingSuffix ==
    \A c \in TextRequests :
        LET in     == calls[c].prompts
            budget == maxCharactersHistorySizeOf(calls[c].context.settings)
            out    == calls[c].messagesTruncated
            sent   == RequestOf(c).params.messages
        IN  /\ Len(sent) = Len(out)
            /\ \A i \in 1..Len(out) : ContentText(sent[i].content) = out[i].message
            /\ IF Len(in) <= 2
               THEN out = in
               ELSE /\ out \in Suffixes(in)
                    /\ out # <<>>
                    /\ \/ /\ TotalMessageLength(out) <= budget
                          /\ \A s \in Suffixes(in) :
                                Len(s) > Len(out) => TotalMessageLength(s) > budget
                       \/ /\ Len(out) = 1
                          /\ TotalMessageLength(SubSeq(in, Len(in) - 1, Len(in))) > budget

\* a history of more than 2 turns that exceeds the budget loses its oldest turn,
\* an image-bearing one, and keeps the last two
C1_Witness ==
    \E c \in TextRequests :
        /\ Len(calls[c].prompts) > 2
        /\ Len(calls[c].messagesTruncated) = 2
        /\ calls[c].prompts[1].attachments # <<>>
        /\ Len(calls[c].prompts[1].message) > 0
        /\ TotalMessageLength(calls[c].messagesTruncated)
              = maxCharactersHistorySizeOf(calls[c].context.settings)

\* C6: the requested model is the vision model whenever a turn that remains
\* after windowing carries an image-mimetype attachment, whatever the configured
\* label; otherwise it is the label table's entry for the configured label.
C6_VisionModelIffWindowedImage ==
    \A c \in TextRequests :
        LET label == Field(calls[c].context.settings, "textModel")
            out   == calls[c].messagesTruncated
        IN  RequestOf(c).params.model =
                IF \E i \in 1..Len(out) : HasImageMime(out[i])
                THEN "gpt-4o-mini"
                ELSE CASE label = "GPT 4o" -> "gpt-4o"
                       [] label = "GPT 4o-mini" -> "gpt-4o-mini"
                       [] label = "vision" -> "gpt-4o-mini"
                       [] OTHER -> undefined

\* windowing dropped a turn, an earlier remaining turn carries the image, and
\* the configured label 'GPT 4o' is overridden by the vision model
C6_Witness ==
    \E c \in TextRequests :
        /\ Len(calls[c].messagesTruncated) < Len(calls[c].prompts)
        /\ Len(calls[c].messagesTruncated) = 2
        /\ HasImageMime(calls[c].messagesTruncated[1])
        /\ ~HasImageMime(calls[c].messagesTruncated[2])
        /\ calls[c].context.settings.textModel = "GPT 4o"
        /\ RequestOf(c).params.model = "gpt-4o-mini"

\* C9: with valid credentials, no image in the windowed turns and a textModel
\* label the table does not hold, sendTextPrompt returns an unsuccessful
\* validation result and issues no provider request.
C9_UnknownLabelIsRejected ==
    \A c \in Slots :
        ( /\ calls[c].pc # "idle"
          /\ calls[c].op = "sendTextPrompt"
          /\ Has(calls[c].context.settings, "apiKey")
          /\ Len(calls[c].context.settings.apiKey) >= 10
          /\ ~\E i \in 1..Len(calls[c].prompts) : HasImageMime(calls[c].prompts[i])
          /\ Field(calls[c].context.settings, "textModel")
                \notin {"GPT 4o", "GPT 4o-mini", "vision"} )
        => /\ ~Has(calls[c], "request")
           /\ \A r \in 1..Len(requests) : requests[r].slot # c
           /\ calls[c].pc = "done"
           /\ ~calls[c].response.validationResult.success

\* the image parts of a composed content (none for plain text)
ImageParts(content) ==
    IF content.kind = "string"
    THEN <<>>
    ELSE SelectSeq(content.parts, LAMBDA part : part.type = "image_url")

ImageMimeAttachments(turn) ==
    SelectSeq(turn.attachments,
              LAMBDA a : /\ Len(a.mimeType) >= 6
                         /\ SubSeq(a.mimeType, 1, 6) = <<"i", "m", "a", "g", "e", "/">>)

\* C3: an image part gets the configured fidelity (settings.imageDetail) if and
\* only if it belongs to the last turn of the windowed list; the image parts of
\* every earlier turn get 'low', also when the earlier turn's text equals the
\* last turn's text.
C3_OnlyLastTurnGetsConfiguredDetail ==
    \A c \in TextRequests :
        LET out  == calls[c].messagesTruncated
            sent == RequestOf(c).params.messages
        IN  \A i \in 1..Len(out) :
                LET images == ImageParts(sent[i].content)
                IN  \A j \in 1..Len(images) :
                        images[j].image_url.detail =
                            IF i = Len(out)
                            THEN calls[c].context.settings.imageDetail
                            ELSE "low"

\* C4: a non-brain turn with at least one image-mimetype attachment is composed
\* as a text part holding the message, then exactly one image part per
\* image-mimetype attachment, in attachment order; an attachment of another
\* mime type produces no image part.
C4_OneImagePartPerImageAttachment ==
    \A c \in TextRequests :
        LET out  == calls[c].messagesTruncated
            sent == RequestOf(c).params.messages
        IN  \A i \in 1..Len(out) :
                (out[i].role # "brain" /\ HasImageMime(out[i])) =>
                    LET content == sent[i].content
                        images  == ImageMimeAttachments(out[i])
                    IN  /\ content.kind = "parts"
                        /\ content.parts[1] = [type |-> "text", text |-> out[i].message]
                        /\ Len(content.parts) = 1 + Len(images)
                        /\ \A j \in 1..Len(images) :
                              /\ content.parts[1 + j].type = "image_url"
                              /\ content.parts[1 + j].image_url.url
                                    = convertImageAttachmentToBase64(images[j])

\* C5: a turn's composed content is the plain text of its message if and only
\* if the turn has no image-mimetype attachment or its role is 'brain'; a brain
\* turn with images yields no image part; 'brain' is sent as 'assistant' and
\* every other role as it is.
C5_PlainTextIffNoImageOrBrain ==
    \A c \in TextRequests :
        LET out  == calls[c].messagesTruncated
            sent == RequestOf(c).params.messages
        IN  \A i \in 1..Len(out) :
                /\ (sent[i].content = [kind |-> "string", text |-> out[i].message])
                      <=> (~HasImageMime(out[i]) \/ out[i].role = "brain")
                /\ out[i].role = "brain" =>
                      /\ ImageParts(sent[i].content) = <<>>
                      /\ sent[i].role = "assistant"
                /\ out[i].role # "brain" => sent[i].role = out[i].role

\* a brain turn with an image attachment goes out as plain text under the role
\* 'assistant', next to a system turn whose image is sent as parts
C5_Witness ==
    \E c \in TextRequests :
        LET out  == calls[c].messagesTruncated
            sent == RequestOf(c).params.messages
        IN  /\ Len(out) = 2
            /\ out[1].role = "brain"
            /\ HasImageMime(out[1])
            /\ sent[1] = [role |-> "assistant",
                          content |-> [kind |-> "string", text |-> out[1].message]]
            /\ out[2].role = "system"
            /\ sent[2].role = "system"
            /\ sent[2].content.kind = "parts"

\* C2: an operation called with an absent credential or one shorter than 10
\* characters returns at once an envelope whose validationResult is
\* unsuccessful, whose result is the non-empty explanation and which carries no
\* attachments; that invocation builds no client, issues no request, reads no
\* file.  With 10 or more characters validation succeeds and the operation goes
\* on to its provider request.
C2_InvalidCredentialShortCircuits ==
    [][\A c \in Slots :
          (calls[c].pc = "idle" /\ calls'[c].pc # "idle") =>
              LET settings == calls'[c].context.settings
              IN  IF ~Has(settings, "apiKey") \/ Len(settings.apiKey) < 10
                  THEN /\ calls'[c].pc = "done"
                       /\ ~calls'[c].response.validationResult.success
                       /\ calls'[c].response.result # ""
                       /\ calls'[c].response.result
                             = calls'[c].response.validationResult.errors[1]
                       /\ ~Has(calls'[c].response, "attachments")
                       /\ requests' = requests
                       /\ clientsBuilt' = clientsBuilt
                       /\ openAI' = openAI
                       /\ currentKey' = currentKey
                       /\ fileReads' = fileReads
                       /\ fetches' = fetches
                  ELSE /\ calls'[c].pc = "await"
                       /\ calls'[c].validationResult.success
                       /\ Len(requests') = Len(requests) + 1
                       /\ requests'[Len(requests')].slot = c]_vars

\* after an earlier call went to the provider, a call with a 9-character
\* credential has been answered with the validation failure
C2_Witness ==
    \E c \in Slots :
        /\ calls[c].pc = "done"
        /\ calls[c].op = "generateImage"
        /\ Field(calls[c].context.settings, "apiKey") = NineKey
        /\ Len(NineKey) = 9
        /\ ~calls[c].response.validationResult.success
        /\ Len(requests) = 1
        /\ clientsBuilt = 1

\* C8: over the getClient calls of one service instance (one per provider
\* request, in order) a new client is constructed exactly when it is the first
\* call or its credential differs from the preceding call's; otherwise the
\* cached client is returned.  After every call currentKey is that call's
\* credential and the cached client is the one built from it.
C8_ClientRebuiltIffCredentialChanged ==
    /\ \A i \in 1..Len(requests) :
          LET isNew == \A j \in 1..(i - 1) : requests[j].client.id # requests[i].client.id
          IN  /\ isNew <=> (i = 1 \/ requests[i].apiKey # requests[i - 1].apiKey)
              /\ ~isNew => requests[i].client = requests[i - 1].client
              /\ requests[i].client.apiKey = requests[i].apiKey
    /\ clientsBuilt = Cardinality({requests[i].client.id : i \in 1..Len(requests)})
    /\ requests # <<>> =>
          /\ currentKey = requests[Len(requests)].apiKey
          /\ openAI = requests[Len(requests)].client
    /\ requests = <<>> => openAI = NoClient

\* three calls: the second reuses the first's client, the third, with another
\* credential, replaces it
C8_Witness ==
    /\ Len(requests) = 3
    /\ requests[1].apiKey = requests[2].apiKey
    /\ requests[2].client = requests[1].client
    /\ requests[3].apiKey # requests[2].apiKey
    /\ requests[3].client.id = 2
    /\ currentKey = requests[3].apiKey

\* the generateImage invocations that got as far as their provider request
ImageRequests == {c \in Slots : /\ calls[c].pc # "idle"
                                /\ calls[c].op = "generateImage"
                                /\ Has(calls[c], "request")}

LastPrompt(c) == calls[c].prompts[Len(calls[c].prompts)]

\* C7: generateImage with valid settings returns result '' and one attachment
\* per image the provider returned, in the provider's order, each tagged
\* fileType 'image' and mimeType 'image/png'; its data is the provider's URL for
\* 'url', the provider's base64 string for 'base64' (requested as b64_json) and
\* the bytes fetched from the provider's URL for 'binary' (requested as url).
\* Only the last prompt of the list is used.
C7_ImageAttachmentsFollowProvider ==
    \A c \in ImageRequests :
        LET type == LastPrompt(c).expectedResponseType
            sent == RequestOf(c).params
        IN  /\ sent.response_format = IF type = "base64" THEN "b64_json" ELSE "url"
            /\ sent.prompt = trim(LastPrompt(c).message)
            /\ calls[c].pc = "done" =>
                  LET data == calls[c].result.data
                      out  == calls[c].response
                  IN  /\ out.result = ""
                      /\ out.validationResult.success
                      /\ Len(out.attachments) = Len(data)
                      /\ \A i \in 1..Len(data) :
                            /\ out.attachments[i].fileType = "image"
                            /\ out.attachments[i].mimeType = "image/png"
                            /\ out.attachments[i].data =
                                  CASE type = "url" -> data[i].url
                                    [] type = "base64" -> data[i].b64_json
                                    [] type = "binary" -> RemoteBytes[data[i].url]
                      /\ fetches = IF type = "binary"
                                   THEN [i \in 1..Len(data) |-> data[i].url]
                                   ELSE <<>>

\* two prompts, the last one binary: two different images came back and their
\* bytes are returned in the provider's order
C7_Witness ==
    \E c \in ImageRequests :
        /\ calls[c].pc = "done"
        /\ Len(calls[c].prompts) = 2
        /\ calls[c].prompts[1].expectedResponseType = "base64"
        /\ calls[c].prompts[2].expectedResponseType = "binary"
        /\ calls[c].prompts[1].message # calls[c].prompts[2].message
        /\ Len(calls[c].result.data) = 2
        /\ calls[c].result.data[1].url # calls[c].result.data[2].url
        /\ calls[c].response.attachments[1].data = RemoteBytes[calls[c].result.data[1].url]
        /\ calls[c].response.attachments[2].data = RemoteBytes[calls[c].result.data[2].url]

\* C10: with the image model label 'Dall-E 3' the request asks for 1 image of
\* size '1024x1024' whatever count and size are configured, and the call is
\* not rejected; with any other label it carries the configured count, parsed
\* as an integer, and the configured size.
C10_AdvancedModelOverridesCountAndSize ==
    \A c \in Slots :
        ( /\ calls[c].pc # "idle"
          /\ calls[c].op = "generateImage"
          /\ calls[c].prompts # <<>> ) =>
            LET settings == calls[c].context.settings
                count    == settings.imageGenerationCount
            IN  /\ Has(calls[c], "request")
                /\ IF Field(settings, "imageGenerationModel") = "Dall-E 3"
                   THEN /\ RequestOf(c).params.model = "dall-e-3"
                        /\ RequestOf(c).params.n = [nan |-> FALSE, value |-> 1]
                        /\ RequestOf(c).params.size = "1024x1024"
                   ELSE /\ RequestOf(c).params.n =
                              CASE count = <<"1">> -> [nan |-> FALSE, value |-> 1]
                                [] count = <<"2">> -> [nan |-> FALSE, value |-> 2]
                                [] count = <<" ", "3", "x">> -> [nan |-> FALSE, value |-> 3]
                                [] count = <<"x">> -> [nan |-> TRUE]
                        /\ RequestOf(c).params.size = settings.imageGenerationSize

\* 'Dall-E 3' with a configured count of 2 and size 256x256: the request asks
\* for 1 image of 1024x1024
C10_Witness ==
    \E c \in ImageRequests :
        /\ Field(calls[c].context.settings, "imageGenerationModel") = "Dall-E 3"
        /\ calls[c].context.settings.imageGenerationCount = <<"2">>
        /\ calls[c].context.settings.imageGenerationSize = "256x256"
        /\ RequestOf(c).params.n = [nan |-> FALSE, value |-> 1]
        /\ RequestOf(c).params.size = "1024x1024"

\* the invocations whose provider request has been issued
Issued == {c \in Slots : calls[c].pc # "idle" /\ Has(calls[c], "request")}

\* C11: under any interleaving of overlapping calls that use different valid
\* credentials, every provider request is issued on a client built from the
\* issuing call's own credential: a step that touches the client cache is the
\* step that starts that call's request, on the client the cache then holds, so
\* no call sends its request on a client built for another credential, and the
\* cached client and currentKey never disagree.
C11_RequestUsesOwnCredentialClient ==
    /\ [](/\ \A c \in Issued :
                /\ RequestOf(c).slot = c
                /\ RequestOf(c).client.apiKey = calls[c].context.settings.apiKey
                /\ RequestOf(c).client.id \in 1..clientsBuilt
          /\ \A i, j \in 1..Len(requests) :
                requests[i].client.id = requests[j].client.id
                    => requests[i].apiKey = requests[j].apiKey
          /\ openAI.apiKey = currentKey
          /\ openAI = NoClient <=> clientsBuilt = 0)
    /\ [][(openAI' # openAI \/ currentKey' # currentKey \/ clientsBuilt' # clientsBuilt) =>
             /\ Len(requests') = Len(requests) + 1
             /\ requests'[Len(requests')].client = openAI'
             /\ requests'[Len(requests')].apiKey = currentKey'
             /\ \E c \in Slots :
                   /\ calls[c].pc = "idle"
                   /\ calls'[c].pc = "await"
                   /\ calls'[c].request = Len(requests')
                   /\ calls'[c].context.settings.apiKey = currentKey']_vars

\* two calls with different valid credentials are both waiting for the
\* provider, each on its own client, after the cache was replaced under the
\* first one
C11_Witness ==
    /\ calls[1].pc = "await"
    /\ calls[2].pc = "await"
    /\ calls[1].context.settings.apiKey # calls[2].context.settings.apiKey
    /\ calls[1].request < calls[2].request
    /\ RequestOf(1).client.apiKey = calls[1].context.settings.apiKey
    /\ RequestOf(2).client.apiKey = calls[2].context.settings.apiKey
    /\ RequestOf(1).client # RequestOf(2).client
    /\ openAI = RequestOf(2).client
    /\ clientsBuilt = 2

====
